---- MODULE Spec2Model ----
(***************************************************************************)
(* A model of the release orchestration engine of pkg/tiller               *)
(* (release_server.go and the hook classifier that follows it in the same  *)
(* source file): the values reuse policy (reuseValues), the name allocator *)
(* (uniqName), the hook executor (execHook) and the manifest classifier    *)
(* (sortManifests / manifestFile.sort).                                    *)
(*                                                                         *)
(* Every component is a synchronous call; it is modelled as its own small  *)
(* state machine over the variables it touches, with its own               *)
(* specification (SpecValues, SpecName, SpecHook, SpecEntry, SpecSort).    *)
(* Spec is their union: one call of any one component.                     *)
(***************************************************************************)
EXTENDS Integers, Sequences, FiniteSets, TLC

VARIABLES
    \* ---- reuseValues(req, current)
    req,            \* the UpdateReleaseRequest, mutated in place
    reqIn,          \* the request as the caller supplied it
    current,        \* the prior release
    rvPc,           \* "idle" | "call" | "done"
    rvErr,          \* the error reuseValues returned ("nil" when none)
    \* ---- uniqName(start, reuse)
    start,          \* the explicit name ("" is the empty sequence)
    reuse,          \* the reuse flag
    history,        \* the revisions the store holds for start, in the order it returns them
    historyErr,     \* what s.env.Releases.History returns as its error
    unPc,           \* "idle" | "call" | "gen" | "ret" | "panic"
    tries,          \* the loop counter i of the generation loop
    unName,         \* the returned name
    unErr,          \* the returned error ("nil" when none)
    looked,         \* the outcomes of the Get lookups of the generation loop, in order
    \* ---- execHook(hs, name, namespace, hook, timeout)
    hs,             \* the hook list; LastRun is written through the pointers
    hook,           \* the event name asked for
    executingHooks, \* indices into hs, in execution order
    ehPc,           \* "idle" | "call" | "create" | "watch" | "ret"
    ehI,            \* position in executingHooks of the hook being run
    ehErr,          \* the returned error ("nil" when none)
    kubeCalls,      \* the calls made on the KubeClient, in order
    clock,          \* timeconv.Now()
    \* ---- sortManifests(files, apis, sort)
    files,          \* the rendered file set: path -> sequence of documents
    todo,           \* the paths the range over files has not visited yet
    result,         \* the result struct: hooks and generic
    smPc,           \* "idle" | "render" | "range" | "ret"
    smErr,          \* the returned error ("nil" when none)
    smOut,          \* what sortManifests returned: hooks and generic
    apis,           \* the chartutil.VersionSet handed in
    intSize,        \* the width in bits of Go's int in this build: 32 or 64
    \* ---- renderResources(ch, values, vs)
    rendered,       \* the file set as renderer.Render returned it
    notes,          \* the local variable notes
    rrPc,           \* "idle" | "call" | "sort" | "ret"
    rrOut,          \* what renderResources returned: hooks, blob, notes, err
    first,          \* what an earlier call of sortManifests on the same files returned
    \* ---- capabilities(disc)
    disc,           \* what the discovery client answers: server version, server groups
    capPc,          \* "idle" | "call" | "groups" | "ret"
    capOut,         \* what capabilities returned: the snapshot or nil, and the error
    \* ---- two install operations on one name: uniqName, then recordRelease
    store,          \* the revisions the history store holds for the name
    ipc,            \* per operation: "idle" | "call" | "ret" | "recorded"
    igrant,         \* per operation: what uniqName saw and returned
    irec,           \* per operation: what the store answered and what recordRelease returned
    \* ---- NewChartRepository(cfg, getters)
    cfg,            \* the repository entry: its URL
    getters,        \* the schemes a provider is registered for
    ncPc,           \* "idle" | "call" | "scheme" | "construct" | "ret"
    ncOut           \* what NewChartRepository returned: the repository or nil, and the error

valueVars == <<req, reqIn, current, rvPc, rvErr>>
nameVars  == <<start, reuse, history, historyErr, unPc, tries, unName, unErr, looked>>
hookVars  == <<hs, hook, executingHooks, ehPc, ehI, ehErr, kubeCalls, clock>>
sortVars  == <<files, todo, result, smPc, smErr, smOut, apis, intSize>>
renderVars == <<rendered, notes, rrPc, rrOut>>
rerunVars == <<first>>
capVars   == <<disc, capPc, capOut>>
installVars == <<store, ipc, igrant, irec>>
repoVars  == <<cfg, getters, ncPc, ncOut>>
vars      == <<valueVars, nameVars, hookVars, sortVars, renderVars, rerunVars,
               capVars, installVars, repoVars>>

\* what a call of one component leaves alone: the state of the others
notValues == <<nameVars, hookVars, sortVars, renderVars, rerunVars, capVars, installVars, repoVars>>
notName   == <<valueVars, hookVars, sortVars, renderVars, rerunVars, capVars, installVars, repoVars>>
notHook   == <<valueVars, nameVars, sortVars, renderVars, rerunVars, capVars, installVars, repoVars>>
notSort   == <<valueVars, nameVars, hookVars, renderVars, rerunVars, capVars, installVars, repoVars>>
notRender == <<valueVars, nameVars, hookVars, rerunVars, capVars, installVars, repoVars>>
notRerun  == <<valueVars, nameVars, hookVars, renderVars, capVars, installVars, repoVars>>
notCaps   == <<valueVars, nameVars, hookVars, sortVars, renderVars, rerunVars, installVars, repoVars>>
notInstall == <<valueVars, nameVars, hookVars, sortVars, renderVars, rerunVars, capVars, repoVars>>
notRepo   == <<valueVars, nameVars, hookVars, sortVars, renderVars, rerunVars, capVars, installVars>>

(***************************************************************************)
(* Generic helpers on sequences.                                           *)
(***************************************************************************)
Range(s) == {s[i] : i \in DOMAIN s}

SeqsUpTo(S, n) == UNION {[1..k -> S] : k \in 0..n}

(***************************************************************************)
(*                     VALUES REUSE POLICY: reuseValues                    *)
(*                                                                         *)
(* A values tree is a map from the keys to a value, 0 standing for "key    *)
(* absent".  A chart.Config is a pointer that may be nil; its Raw is text: *)
(* the zero-length string, text that does not parse, or YAML of a tree.    *)
(* YAML of a tree is either the canonical serialisation the marshaller     *)
(* writes ("{}\n" for the empty tree) or some other text of the same tree. *)
(***************************************************************************)
MaxVal == 2
Keys == {"a", "b"}
Trees == [Keys -> 0..MaxVal]
EmptyTree == [k \in Keys |-> 0]

NilConfig == [isNil |-> TRUE, form |-> "nil", tree |-> EmptyTree, canon |-> TRUE]
RawEmpty  == [isNil |-> FALSE, form |-> "empty", tree |-> EmptyTree, canon |-> TRUE]
RawBad    == [isNil |-> FALSE, form |-> "bad", tree |-> EmptyTree, canon |-> TRUE]
Yaml(t, c) == [isNil |-> FALSE, form |-> "yaml", tree |-> t, canon |-> c]

\* the literal "{}\n" of the source
EmptyObject == Yaml(EmptyTree, TRUE)

OneTree == [k \in Keys |-> IF k = "a" THEN 1 ELSE 0]

\* configurations a caller or the store can hand in
Configs ==
    {NilConfig, RawEmpty, RawBad}
        \cup {Yaml(t, TRUE) : t \in Trees}
        \cup {Yaml(EmptyTree, FALSE), Yaml(OneTree, FALSE)}

\* chart default values (values.yaml of a chart)
ChartValues ==
    {Yaml(EmptyTree, TRUE), Yaml(OneTree, TRUE),
     Yaml([k \in Keys |-> IF k = "a" THEN 2 ELSE 1], TRUE)}

\* chartutil.ReadValues: parse Raw; the zero-length text is the empty tree
ReadValues(c) ==
    IF c.form = "bad" THEN [err |-> TRUE, tree |-> EmptyTree]
    ELSE [err |-> FALSE, tree |-> c.tree]

\* chart defaults merged under an overriding tree: the override wins per key
coalesce(defaults, over) ==
    [k \in Keys |-> IF over[k] # 0 THEN over[k] ELSE defaults[k]]

\* chartutil.CoalesceValues(chart, config)
CoalesceValues(chartValues, config) ==
    LET ev == ReadValues(config)
        dv == ReadValues(chartValues)
    IN  IF ev.err \/ dv.err THEN [err |-> TRUE, tree |-> EmptyTree]
        ELSE [err |-> FALSE, tree |-> coalesce(dv.tree, ev.tree)]

\* Values.YAML(): the marshaller's canonical text of a tree; marshalling a
\* tree that was read from YAML does not fail
YAML(t) == Yaml(t, TRUE)

\* a blank test that forgets the serialised empty object
IsBlank_noEmptyObject(c) == c.isNil \/ c.form = "empty"

\* req.Values == nil || req.Values.Raw == "" || req.Values.Raw == "{}\n"
IsBlank(c) == c.isNil \/ c.form = "empty" \/ c = EmptyObject

InitValues ==
    /\ req \in [ResetValues : BOOLEAN, ReuseValues : BOOLEAN,
                Values : Configs, ChartValues : ChartValues]
    /\ reqIn = req
    /\ current \in [Config : Configs, ChartValues : ChartValues]
    /\ rvPc = "call"
    /\ rvErr = "nil"

IdleValues ==
    /\ req = [ResetValues |-> FALSE, ReuseValues |-> FALSE,
              Values |-> NilConfig, ChartValues |-> EmptyObject]
    /\ reqIn = req
    /\ current = [Config |-> NilConfig, ChartValues |-> EmptyObject]
    /\ rvPc = "idle"
    /\ rvErr = "nil"

\* the branch of reuseValues taken when ResetValues is set
reuseValues_reset ==
    /\ rvPc = "call"
    /\ req.ResetValues
    /\ rvErr' = "nil"
    /\ rvPc' = "done"
    /\ UNCHANGED <<req, reqIn, current>>
    /\ UNCHANGED notValues

\* the branch taken when ReuseValues is set and ResetValues is not
reuseValues_reuse ==
    /\ rvPc = "call"
    /\ ~req.ResetValues
    /\ req.ReuseValues
    /\ LET oldVals == CoalesceValues(current.ChartValues, current.Config)
       IN  IF oldVals.err
           THEN /\ rvErr' = "failed to rebuild old values"
                /\ req' = req
           ELSE /\ rvErr' = "nil"
                /\ req' = [req EXCEPT !.ChartValues = YAML(oldVals.tree)]
    /\ rvPc' = "done"
    /\ UNCHANGED <<reqIn, current>>
    /\ UNCHANGED notValues

\* the default branch: carry the stored configuration forward
reuseValues_default ==
    /\ rvPc = "call"
    /\ ~req.ResetValues
    /\ ~req.ReuseValues
    /\ IF IsBlank(req.Values)
          /\ ~current.Config.isNil
          /\ current.Config.form # "empty"
          /\ current.Config # EmptyObject
       THEN req' = [req EXCEPT !.Values = current.Config]
       ELSE req' = req
    /\ rvErr' = "nil"
    /\ rvPc' = "done"
    /\ UNCHANGED <<reqIn, current>>
    /\ UNCHANGED notValues

\* a reuseValues that tests ReuseValues before ResetValues
reuseValues_reuseFirst ==
    \/ /\ rvPc = "call"
       /\ req.ReuseValues
       /\ LET oldVals == CoalesceValues(current.ChartValues, current.Config)
          IN  IF oldVals.err
              THEN /\ rvErr' = "failed to rebuild old values"
                   /\ req' = req
              ELSE /\ rvErr' = "nil"
                   /\ req' = [req EXCEPT !.ChartValues = YAML(oldVals.tree)]
       /\ rvPc' = "done"
       /\ UNCHANGED <<reqIn, current>>
       /\ UNCHANGED notValues
    \/ /\ ~req.ReuseValues
       /\ (reuseValues_reset \/ reuseValues_default)

reuseValues ==
    \/ reuseValues_reset
    \/ reuseValues_reuse
    \/ reuseValues_default

(***************************************************************************)
(*                        NAME ALLOCATOR: uniqName                         *)
(*                                                                         *)
(* A name is a sequence of characters; three characters stand for the      *)
(* classes the name rules tell apart: "a" for [A-Za-z0-9], "-" for one of  *)
(* - _ . and "!" for any other character.                                  *)
(***************************************************************************)
releaseNameMaxLen == 53

maxTries == 5

Fill(n) == [i \in 1..n |-> "a"]

\* names a caller can supply; <<>> is "no name supplied"
StartNames ==
    {<<>>, <<"a">>, <<"a", "-", "a">>, <<"-", "a">>, <<"a", "!">>, <<"a", "-">>,
     Fill(releaseNameMaxLen),
     Fill(releaseNameMaxLen - 1) \o <<"-">>,
     Fill(releaseNameMaxLen + 1)}

\* names moniker's NameSep("-") yields: two words joined by the separator
GeneratedNames ==
    {<<"a", "-", "a">>,
     Fill(releaseNameMaxLen - 23) \o <<"-">> \o Fill(releaseNameMaxLen - 23)}

\* the literal "ERROR" returned with the exhaustion error
ErrorName == Fill(5)

\* release.Status_Code values a stored revision can carry
StatusCodes == {"UNKNOWN", "DEPLOYED", "DELETED", "SUPERSEDED", "FAILED"}

MaxHist == 2
MaxRev == 3

Revisions == [Version : 1..MaxRev, Status : StatusCodes]

\* the histories a store can hold for one name: revision numbers are unique
Histories ==
    {h \in SeqsUpTo(Revisions, MaxHist) :
        \A i, j \in DOMAIN h : i # j => h[i].Version # h[j].Version}

\* ValidName.MatchString: ^(([A-Za-z0-9][-A-Za-z0-9_.]*)?[A-Za-z0-9])+$
\* A string matches exactly when it is not empty, holds only characters of
\* [-A-Za-z0-9_.], and begins and ends with one of [A-Za-z0-9].
ValidName(n) ==
    /\ Len(n) >= 1
    /\ \A i \in DOMAIN n : n[i] \in {"a", "-"}
    /\ n[1] = "a"
    /\ n[Len(n)] = "a"

validateReleaseName(releaseName) ==
    IF releaseName = <<>> THEN "errMissingRelease"
    ELSE IF ~ValidName(releaseName) \/ Len(releaseName) > releaseNameMaxLen
         THEN "errInvalidName"
         ELSE "nil"

RECURSIVE ReverseSortByRevision(_)
\* relutil.Reverse(h, relutil.SortByRevision): greatest revision number first
ReverseSortByRevision(h) ==
    IF h = <<>> THEN <<>>
    ELSE LET top == CHOOSE i \in DOMAIN h :
                        \A j \in DOMAIN h : h[j].Version <= h[i].Version
             rest == [j \in 1..(Len(h) - 1) |-> IF j < top THEN h[j] ELSE h[j + 1]]
         IN  <<h[top]>> \o ReverseSortByRevision(rest)

\* s.env.Releases.History(start): the revisions, or an error and none
History == IF historyErr = "nil" THEN history ELSE <<>>

InitName ==
    /\ start \in StartNames
    /\ reuse \in BOOLEAN
    /\ history \in Histories
    /\ historyErr \in {"nil", "not found", "store failure"}
    /\ historyErr = "not found" => history = <<>>
    /\ unPc = "call"
    /\ tries = 0
    /\ unName = <<>>
    /\ unErr = "nil"
    /\ looked = <<>>

IdleName ==
    /\ start = <<>>
    /\ reuse = FALSE
    /\ history = <<>>
    /\ historyErr = "nil"
    /\ unPc = "idle"
    /\ tries = 0
    /\ unName = <<>>
    /\ unErr = "nil"
    /\ looked = <<>>

\* lines 163-190: what uniqName returns for the supplied name s and reuse flag
\* r when History answers with the revisions h and the error e
ExplicitName(s, r, h, e) ==
    IF Len(s) > releaseNameMaxLen
    THEN [name |-> <<>>, err |-> "exceeds max length"]
    ELSE IF e # "nil" \/ Len(h) < 1
    THEN [name |-> s, err |-> "nil"]
    ELSE LET rel == ReverseSortByRevision(h)[1]
             st == rel.Status
         IN  IF r /\ (st = "DELETED" \/ st = "FAILED")
             THEN [name |-> s, err |-> "nil"]
             ELSE IF r
             THEN [name |-> <<>>, err |-> "cannot re-use a name that is still in use"]
             ELSE [name |-> <<>>, err |-> "already exists"]

\* what uniqName returns for a supplied name
ExplicitResult == ExplicitName(start, reuse, History, historyErr)

\* if start != "" { ... }
uniqName_explicit ==
    /\ unPc = "call"
    /\ start # <<>>
    /\ unName' = ExplicitResult.name
    /\ unErr' = ExplicitResult.err
    /\ unPc' = "ret"
    /\ UNCHANGED <<start, reuse, history, historyErr, tries, looked>>
    /\ UNCHANGED notName

\* start == "": enter the generation loop
uniqName_generate ==
    /\ unPc = "call"
    /\ start = <<>>
    /\ unPc' = "gen"
    /\ UNCHANGED <<start, reuse, history, historyErr, tries, unName, unErr, looked>>
    /\ UNCHANGED notName

\* name[:releaseNameMaxLen] when the generated name is too long
Truncate(name) ==
    IF Len(name) > releaseNameMaxLen THEN SubSeq(name, 1, releaseNameMaxLen) ELSE name

\* One pass of the loop body.  Get returns a release and a nil error ("found"),
\* an error whose text holds "not found", or another error.  With a nil error
\* the call err.Error() dereferences nil and the goroutine panics.
uniqName_try ==
    /\ unPc = "gen"
    /\ tries < maxTries
    /\ \E generated \in GeneratedNames, got \in {"found", "not found", "store failure"} :
          LET name == Truncate(generated)
          IN  /\ looked' = Append(looked, got)
              /\ IF got = "found"
                 THEN /\ unPc' = "panic"
                      /\ UNCHANGED <<unName, unErr, tries>>
                 ELSE IF got = "not found"
                 THEN /\ unPc' = "ret"
                      /\ unName' = name
                      /\ unErr' = "nil"
                      /\ UNCHANGED tries
                 ELSE /\ tries' = tries + 1
                      /\ UNCHANGED <<unPc, unName, unErr>>
    /\ UNCHANGED <<start, reuse, history, historyErr>>
    /\ UNCHANGED notName

\* the loop ran maxTries times without returning
uniqName_exhausted ==
    /\ unPc = "gen"
    /\ tries >= maxTries
    /\ unPc' = "ret"
    /\ unName' = ErrorName
    /\ unErr' = "no available release name found"
    /\ UNCHANGED <<start, reuse, history, historyErr, tries, looked>>
    /\ UNCHANGED notName

uniqName ==
    \/ uniqName_explicit
    \/ uniqName_generate
    \/ uniqName_try
    \/ uniqName_exhausted

(***************************************************************************)
(*                         HOOK EXECUTOR: execHook                         *)
(*                                                                         *)
(* A hook name is a sequence of character codes, compared as Go compares   *)
(* strings.  executingHooks holds indices into hs: the Go slice holds      *)
(* pointers to the hooks of hs, and LastRun is written through them.       *)
(***************************************************************************)
\* var events: hook event name -> release.Hook_Event
events ==
    [n \in {"pre-install", "post-install", "pre-delete", "post-delete",
            "pre-upgrade", "post-upgrade", "pre-rollback", "post-rollback",
            "release-test-success", "release-test-failure"} |->
        CASE n = "pre-install" -> "PRE_INSTALL"
          [] n = "post-install" -> "POST_INSTALL"
          [] n = "pre-delete" -> "PRE_DELETE"
          [] n = "post-delete" -> "POST_DELETE"
          [] n = "pre-upgrade" -> "PRE_UPGRADE"
          [] n = "post-upgrade" -> "POST_UPGRADE"
          [] n = "pre-rollback" -> "PRE_ROLLBACK"
          [] n = "post-rollback" -> "POST_ROLLBACK"
          [] n = "release-test-success" -> "RELEASE_TEST_SUCCESS"
          [] n = "release-test-failure" -> "RELEASE_TEST_FAILURE"]

MaxHooks == 2

HookNames == {<<1>>, <<1, 1>>, <<2>>}
HookWeights == {-1, 1}
HookEvents ==
    {<<"PRE_INSTALL">>, <<"PRE_INSTALL", "PRE_INSTALL">>,
     <<"POST_INSTALL">>, <<"POST_INSTALL", "PRE_INSTALL">>}

\* a release.Hook as execHook reads it
Hooks == [Name : HookNames, Weight : HookWeights, Events : HookEvents, LastRun : {0}]

\* the event names a caller passes
HookArgs == {"pre-install", "post-install", "no-such-event"}

\* Go's string order: a < b
StringLess(a, b) ==
    \E k \in 1..(Len(a) + 1) :
        /\ k <= Len(b)
        /\ \A i \in 1..(k - 1) : i <= Len(a) /\ a[i] = b[i]
        /\ (k = Len(a) + 1 \/ a[k] < b[k])

\* hookByWeight.Less
HookLess(x, y) ==
    IF x.Weight = y.Weight THEN StringLess(x.Name, y.Name) ELSE x.Weight < y.Weight

RECURSIVE SortedOrders(_, _)
\* every arrangement of the entries at positions P of list l in which no
\* entry is followed by one that is Less than it
SortedOrders(l, P) ==
    IF P = {} THEN {<<>>}
    ELSE LET least == {p \in P : \A q \in P : ~HookLess(hs[l[q]], hs[l[p]])}
         IN  UNION {{<<l[p]>> \o rest : rest \in SortedOrders(l, P \ {p})} : p \in least}

\* sortByHookWeight(hooks): sort.Sort by (Weight, Name); the order of entries
\* that compare equal is not fixed
sortByHookWeight(l) == SortedOrders(l, DOMAIN l)

RECURSIVE BoundTo(_, _, _)
\* lines 358-364: one entry per element of h.Events equal to code
BoundTo(code, k, j) ==
    IF k > Len(hs) THEN <<>>
    ELSE IF j > Len(hs[k].Events) THEN BoundTo(code, k + 1, 1)
    ELSE (IF hs[k].Events[j] = code THEN <<k>> ELSE <<>>) \o BoundTo(code, k, j + 1)

InitHook ==
    /\ hs \in SeqsUpTo(Hooks, MaxHooks)
    /\ hook \in HookArgs
    /\ executingHooks = <<>>
    /\ ehPc = "call"
    /\ ehI = 1
    /\ ehErr = "nil"
    /\ kubeCalls = <<>>
    /\ clock = 0

IdleHook ==
    /\ hs = <<>>
    /\ hook = "pre-install"
    /\ executingHooks = <<>>
    /\ ehPc = "idle"
    /\ ehI = 1
    /\ ehErr = "nil"
    /\ kubeCalls = <<>>
    /\ clock = 0

\* code, ok := events[hook]; if !ok { return error }
execHook_unknown ==
    /\ ehPc = "call"
    /\ hook \notin DOMAIN events
    /\ ehErr' = "unknown hook"
    /\ ehPc' = "ret"
    /\ UNCHANGED <<hs, hook, executingHooks, ehI, kubeCalls, clock>>
    /\ UNCHANGED notHook

\* a begin that leaves the selected hooks in list order
execHook_begin_unsorted ==
    /\ ehPc = "call"
    /\ hook \in DOMAIN events
    /\ executingHooks' = BoundTo(events[hook], 1, 1)
    /\ ehI' = 1
    /\ ehPc' = IF executingHooks' = <<>> THEN "ret" ELSE "create"
    /\ UNCHANGED <<hs, hook, ehErr, kubeCalls, clock>>
    /\ UNCHANGED notHook

\* select the hooks bound to the event, sort them, enter the loop
execHook_begin ==
    /\ ehPc = "call"
    /\ hook \in DOMAIN events
    /\ executingHooks' \in sortByHookWeight(BoundTo(events[hook], 1, 1))
    /\ ehI' = 1
    /\ ehPc' = IF executingHooks' = <<>> THEN "ret" ELSE "create"
    /\ UNCHANGED <<hs, hook, ehErr, kubeCalls, clock>>
    /\ UNCHANGED notHook

\* kubeCli.Create(namespace, b, timeout, false)
execHook_create ==
    /\ ehPc = "create"
    /\ \E ok \in BOOLEAN :
          /\ kubeCalls' = Append(kubeCalls,
                [op |-> "Create", h |-> executingHooks[ehI], ok |-> ok])
          /\ IF ok
             THEN /\ ehPc' = "watch"
                  /\ UNCHANGED ehErr
             ELSE /\ ehPc' = "ret"
                  /\ ehErr' = "create failed"
    /\ UNCHANGED <<hs, hook, executingHooks, ehI, clock>>
    /\ UNCHANGED notHook

\* kubeCli.WatchUntilReady(namespace, b, timeout, false); h.LastRun = timeconv.Now()
execHook_watch ==
    /\ ehPc = "watch"
    /\ \E ok \in BOOLEAN :
          /\ kubeCalls' = Append(kubeCalls,
                [op |-> "WatchUntilReady", h |-> executingHooks[ehI], ok |-> ok])
          /\ IF ok
             THEN /\ clock' = clock + 1
                  /\ hs' = [hs EXCEPT ![executingHooks[ehI]].LastRun = clock + 1]
                  /\ ehI' = ehI + 1
                  /\ ehPc' = IF ehI + 1 > Len(executingHooks) THEN "ret" ELSE "create"
                  /\ UNCHANGED ehErr
             ELSE /\ ehPc' = "ret"
                  /\ ehErr' = "watch failed"
                  /\ UNCHANGED <<hs, ehI, clock>>
    /\ UNCHANGED <<hook, executingHooks>>
    /\ UNCHANGED notHook

execHook ==
    \/ execHook_unknown
    \/ execHook_begin
    \/ execHook_create
    \/ execHook_watch

(***************************************************************************)
(*            MANIFEST CLASSIFIER: sortManifests, manifestFile.sort        *)
(*                                                                         *)
(* A document is the text of one entry of a rendered file, given by what   *)
(* parsing its header yields: whether it parses, apiVersion, kind,         *)
(* metadata.name and the annotations.  The hook annotation's value is the  *)
(* sequence of its comma-separated pieces; a piece is an event name, some  *)
(* other word or nothing, possibly in upper case, possibly padded with     *)
(* blanks.  The hook-weight annotation's value is text that is a decimal   *)
(* integer hi * 2^16 + lo (0 <= lo < 2^16) or is not an integer.           *)
(***************************************************************************)
TwoTo16 == 2 ^ 16
TwoTo15 == 2 ^ 15

MaxPieces == 2
MaxDocs == 3

Piece(base, upper, padded) == [base |-> base, upper |-> upper, padded |-> padded]

Pieces ==
    {Piece(b, u, p) : b \in {"pre-install", "post-install", "bogus"},
                      u \in BOOLEAN, p \in BOOLEAN}
        \cup {Piece("", FALSE, p) : p \in BOOLEAN}

\* strings.TrimSpace
TrimSpace(t) == [t EXCEPT !.padded = FALSE]

\* strings.ToLower
ToLower(t) == [t EXCEPT !.upper = FALSE]

\* events[hookType]: the key must equal an event name character for character
EventOf(t) ==
    IF ~t.upper /\ ~t.padded /\ t.base \in DOMAIN events
    THEN [ok |-> TRUE, e |-> events[t.base]]
    ELSE [ok |-> FALSE, e |-> "UNKNOWN"]

NoAnnotation == [present |-> FALSE, pieces |-> <<>>]
HookAnno(pieces) == [present |-> TRUE, pieces |-> pieces]

NoWeight == [present |-> FALSE, int |-> FALSE, hi |-> 0, lo |-> 0]
WeightText == [present |-> TRUE, int |-> FALSE, hi |-> 0, lo |-> 0]
WeightInt(hi, lo) == [present |-> TRUE, int |-> TRUE, hi |-> hi, lo |-> lo]

WeightAnnos ==
    {NoWeight, WeightText}
        \cup {WeightInt(hi, lo) :
                hi \in {-TwoTo15 - 1, -TwoTo15, -1, 0, 1, TwoTo15 - 1, TwoTo15},
                lo \in {0, 5, TwoTo16 - 1}}

Doc(parse, version, kind, other, hookAnno, weight) ==
    [parse |-> parse, Version |-> version, Kind |-> kind, Name |-> <<1>>,
     other |-> other, hook |-> hookAnno, weight |-> weight]

\* strconv.Atoi of the annotation's value; a missing key reads as ""
Atoi(w) ==
    IF ~w.present \/ ~w.int THEN [err |-> TRUE, hi |-> 0, lo |-> 0]
    ELSE IF intSize = 32 /\ (w.hi < -TwoTo15 \/ w.hi >= TwoTo15)
    THEN [err |-> TRUE, hi |-> 0, lo |-> 0]
    ELSE [err |-> FALSE, hi |-> w.hi, lo |-> w.lo]

\* int32(hw): the low 32 bits, read as a signed number
ToInt32(hi, lo) == (((hi + TwoTo15) % TwoTo16) - TwoTo15) * TwoTo16 + lo

calculateHookWeight(entry) ==
    LET hw == Atoi(entry.weight)
    IN  IF hw.err THEN 0 ELSE ToInt32(hw.hi, hw.lo)

hasAnyAnnotation(entry) == entry.other \/ entry.hook.present \/ entry.weight.present

RECURSIVE KnownEvents(_)
\* lines 605-612: the events of the recognised pieces, in the annotation's order
KnownEvents(pieces) ==
    IF pieces = <<>> THEN <<>>
    ELSE LET e == EventOf(ToLower(TrimSpace(Head(pieces))))
         IN  (IF e.ok THEN <<e.e>> ELSE <<>>) \o KnownEvents(Tail(pieces))

manifest(path, m) == [name |-> path, content |-> m, head |-> [Kind |-> m.Kind, Version |-> m.Version]]

\* one pass of the loop body of manifestFile.sort that treats a hook
\* annotation without a known event as no hook annotation
sortEntry_keepUnknown(res, path, m) ==
    IF ~m.parse THEN [result |-> res, err |-> "YAML parse error"]
    ELSE IF m.Version # "" /\ m.Version \notin apis
    THEN [result |-> res, err |-> "apiVersion not available"]
    ELSE IF ~hasAnyAnnotation(m) \/ ~m.hook.present \/ KnownEvents(m.hook.pieces) = <<>>
    THEN [result |-> [res EXCEPT !.generic = Append(@, manifest(path, m))], err |-> "nil"]
    ELSE [result |-> [res EXCEPT !.hooks = Append(@,
                        [Name |-> m.Name, Kind |-> m.Kind, Path |-> path, Manifest |-> m,
                         Events |-> KnownEvents(m.hook.pieces),
                         Weight |-> calculateHookWeight(m)])],
          err |-> "nil"]

\* one pass of the loop body that tests the apiVersion of generic manifests only
sortEntry_gateGenericOnly(res, path, m) ==
    IF ~m.parse THEN [result |-> res, err |-> "YAML parse error"]
    ELSE IF ~hasAnyAnnotation(m) \/ ~m.hook.present
    THEN IF m.Version # "" /\ m.Version \notin apis
         THEN [result |-> res, err |-> "apiVersion not available"]
         ELSE [result |-> [res EXCEPT !.generic = Append(@, manifest(path, m))], err |-> "nil"]
    ELSE LET hw == calculateHookWeight(m)
             h == [Name |-> m.Name, Kind |-> m.Kind, Path |-> path, Manifest |-> m,
                   Events |-> KnownEvents(m.hook.pieces), Weight |-> hw]
         IN  IF h.Events = <<>>
             THEN [result |-> res, err |-> "nil"]
             ELSE [result |-> [res EXCEPT !.hooks = Append(@, h)], err |-> "nil"]

\* one pass of the loop body of manifestFile.sort, for entry m of the file at path
sortEntry(res, path, m) ==
    IF ~m.parse THEN [result |-> res, err |-> "YAML parse error"]
    ELSE IF m.Version # "" /\ m.Version \notin apis
    THEN [result |-> res, err |-> "apiVersion not available"]
    ELSE IF ~hasAnyAnnotation(m)
    THEN [result |-> [res EXCEPT !.generic = Append(@, manifest(path, m))], err |-> "nil"]
    ELSE IF ~m.hook.present
    THEN [result |-> [res EXCEPT !.generic = Append(@, manifest(path, m))], err |-> "nil"]
    ELSE LET hw == calculateHookWeight(m)
             h == [Name |-> m.Name, Kind |-> m.Kind, Path |-> path, Manifest |-> m,
                   Events |-> KnownEvents(m.hook.pieces), Weight |-> hw]
         IN  IF h.Events = <<>>
             THEN [result |-> res, err |-> "nil"]
             ELSE [result |-> [res EXCEPT !.hooks = Append(@, h)], err |-> "nil"]

RECURSIVE manifestFile_sort(_, _, _)
\* manifestFile.sort over the entries in the order the range visits them
manifestFile_sort(res, path, entries) ==
    IF entries = <<>> THEN [result |-> res, err |-> "nil"]
    ELSE LET r == sortEntry(res, path, Head(entries))
         IN  IF r.err # "nil" THEN r
             ELSE manifestFile_sort(r.result, path, Tail(entries))

\* the kind precedence table of an install
InstallOrder ==
    <<"Namespace", "NetworkPolicy", "ResourceQuota", "LimitRange",
      "PodSecurityPolicy", "PodDisruptionBudget", "ServiceAccount", "Secret",
      "ConfigMap", "StorageClass", "PersistentVolume", "PersistentVolumeClaim",
      "ClusterRole", "ClusterRoleBinding", "Role", "RoleBinding", "Service",
      "DaemonSet", "Pod", "ReplicationController", "ReplicaSet", "Deployment",
      "StatefulSet", "Job", "CronJob", "Ingress", "APIService">>

\* the position of a kind in the table; kinds outside it come after all of it
KindRank(ordering, kind) ==
    IF \E i \in DOMAIN ordering : ordering[i] = kind
    THEN CHOOSE i \in DOMAIN ordering : ordering[i] = kind
    ELSE Len(ordering) + 1

RECURSIVE ByRank(_, _, _)
\* the manifests of rank r, then those of the ranks after r, each in list order
ByRank(manifests, ordering, r) ==
    IF r > Len(ordering) + 1 THEN <<>>
    ELSE SelectSeq(manifests, LAMBDA x : KindRank(ordering, x.head.Kind) = r)
            \o ByRank(manifests, ordering, r + 1)

\* sortByKind(manifests, ordering): by kind precedence, equal kinds in list order
sortByKind(manifests, ordering) == ByRank(manifests, ordering, 1)

\* path.Base(filePath) begins with "_"
IsPartial(path) == path.base[1] = "_"

Paths ==
    {[dir |-> "chart/templates", base |-> <<"a">>],
     [dir |-> "chart/templates", base |-> <<"b", "_">>],
     [dir |-> "chart/templates", base |-> <<"_", "h">>]}

\* the documents a rendered chart is made of in the file-set model
SortDocs ==
    {Doc(TRUE, "v1", k, FALSE, NoAnnotation, NoWeight) : k \in {"Namespace", "Service", "Foo"}}
        \cup {Doc(TRUE, "", "Service", TRUE, NoAnnotation, WeightInt(0, 5)),
              Doc(TRUE, "v1", "Job", FALSE,
                  HookAnno(<<Piece("pre-install", FALSE, FALSE)>>), WeightInt(0, 5)),
              Doc(TRUE, "v1", "Job", TRUE,
                  HookAnno(<<Piece("bogus", FALSE, FALSE)>>), NoWeight),
              Doc(FALSE, "", "", FALSE, NoAnnotation, NoWeight),
              Doc(TRUE, "v9", "Job", FALSE,
                  HookAnno(<<Piece("bogus", FALSE, FALSE)>>), NoWeight)}

\* the documents of the single-document model: every hook annotation and weight
EntryDocs ==
    {Doc(TRUE, "v1", "Job", FALSE, HookAnno(ps), w) :
        ps \in SeqsUpTo(Pieces, MaxPieces) \ {<<>>}, w \in WeightAnnos}

EntryPath == [dir |-> "chart/templates", base |-> <<"a">>]

EmptyResult == [hooks |-> <<>>, generic |-> <<>>]

TotalDocs == LET n[P \in SUBSET Paths] ==
                    IF P = {} THEN 0
                    ELSE LET p == CHOOSE q \in P : TRUE IN Len(files[p]) + n[P \ {p}]
             IN  n[DOMAIN files]

\* the orders in which a range over the entries map can visit them
Orders(entries) ==
    {[i \in DOMAIN entries |-> entries[f[i]]] : f \in Permutations(DOMAIN entries)}

InitSort ==
    /\ files = [p \in Paths |-> <<>>]
    /\ todo = {}
    /\ result = EmptyResult
    /\ smPc = "render"
    /\ smErr = "nil"
    /\ smOut = EmptyResult
    /\ apis = {"v1"}
    /\ intSize = 64

InitEntry ==
    /\ \E d \in EntryDocs : files = [p \in {EntryPath} |-> <<d>>]
    /\ todo = {EntryPath}
    /\ result = EmptyResult
    /\ smPc = "range"
    /\ smErr = "nil"
    /\ smOut = EmptyResult
    /\ apis = {"v1"}
    /\ intSize \in {32, 64}

IdleSort ==
    /\ files = [p \in Paths |-> <<>>]
    /\ todo = {}
    /\ result = EmptyResult
    /\ smPc = "idle"
    /\ smErr = "nil"
    /\ smOut = EmptyResult
    /\ apis = {"v1"}
    /\ intSize = 64

\* renderer.Render(ch, values): the engine writes one more document into a file
Render ==
    /\ smPc = "render"
    /\ TotalDocs < MaxDocs
    /\ \E p \in Paths, d \in SortDocs : files' = [files EXCEPT ![p] = Append(@, d)]
    /\ UNCHANGED <<todo, result, smPc, smErr, smOut, apis, intSize>>
    /\ UNCHANGED notSort

\* sortManifests is called with the rendered files
sortManifests_call ==
    /\ smPc = "render"
    /\ smPc' = "range"
    /\ todo' = DOMAIN files
    /\ result' = EmptyResult
    /\ UNCHANGED <<files, smErr, smOut, apis, intSize>>
    /\ UNCHANGED notSort

\* the range meets a partial or an empty file: continue
sortManifests_skip ==
    /\ smPc = "range"
    /\ \E p \in todo :
          /\ IsPartial(p) \/ files[p] = <<>>
          /\ todo' = todo \ {p}
    /\ UNCHANGED <<files, result, smPc, smErr, smOut, apis, intSize>>
    /\ UNCHANGED notSort

\* the range meets a file with documents: manifestFile.sort(result)
sortManifests_file ==
    /\ smPc = "range"
    /\ \E p \in todo :
          /\ ~IsPartial(p)
          /\ files[p] # <<>>
          /\ \E entries \in Orders(files[p]) :
                LET r == manifestFile_sort(result, p, entries)
                IN  /\ result' = r.result
                    /\ IF r.err # "nil"
                       THEN /\ smErr' = r.err
                            /\ smOut' = r.result
                            /\ smPc' = "ret"
                            /\ UNCHANGED todo
                       ELSE /\ todo' = todo \ {p}
                            /\ UNCHANGED <<smErr, smOut, smPc>>
    /\ UNCHANGED <<files, apis, intSize>>
    /\ UNCHANGED notSort

\* a return that hands the generic manifests back in the order they were met
sortManifests_return_unsorted ==
    /\ smPc = "range"
    /\ todo = {}
    /\ smOut' = [hooks |-> result.hooks, generic |-> result.generic]
    /\ smPc' = "ret"
    /\ UNCHANGED <<files, todo, result, smErr, apis, intSize>>
    /\ UNCHANGED notSort

\* the range is over: return result.hooks, sortByKind(result.generic, sort), nil
sortManifests_return ==
    /\ smPc = "range"
    /\ todo = {}
    /\ smOut' = [hooks |-> result.hooks, generic |-> sortByKind(result.generic, InstallOrder)]
    /\ smPc' = "ret"
    /\ UNCHANGED <<files, todo, result, smErr, apis, intSize>>
    /\ UNCHANGED notSort

sortManifests ==
    \/ sortManifests_call
    \/ sortManifests_skip
    \/ sortManifests_file
    \/ sortManifests_return

(***************************************************************************)
(*                      RENDER STEP: renderResources                       *)
(*                                                                         *)
(* A path is a directory and a base name; the base name is a sequence of   *)
(* parts, so that <<"x", "NOTES.txt">> is the file name xNOTES.txt.  The   *)
(* content of a file is the sequence of its documents, also for a notes    *)
(* file: free text is a document that does not parse.  The blob is the     *)
(* sequence of the (source, content) pairs written into the buffer.        *)
(***************************************************************************)
notesFileSuffix == "NOTES.txt"

\* ch.Metadata.Name
ChartName == "chart"

\* strings.HasSuffix(k, notesFileSuffix)
HasNotesSuffix(k) == k.base[Len(k.base)] = notesFileSuffix

\* path.Join(ch.Metadata.Name, "templates", notesFileSuffix)
NotesPath == [dir |-> ChartName \o "/templates", base |-> <<notesFileSuffix>>]

\* a test that takes the notes of any chart, subcharts included
IsParentNotes_anyChart(k) == k.base = <<notesFileSuffix>>

\* k == path.Join(ch.Metadata.Name, "templates", notesFileSuffix)
IsParentNotes(k) == k = NotesPath

MaxNotes == 1

RenderPaths ==
    {NotesPath,
     [dir |-> "chart/charts/sub/templates", base |-> <<notesFileSuffix>>],
     [dir |-> "chart/templates", base |-> <<"x", notesFileSuffix>>],
     [dir |-> "chart/templates", base |-> <<"a">>]}

\* the documents of the render model: free text, a document of an apiVersion
\* that is not available, a hook and a generic manifest
RenderDocs ==
    {Doc(FALSE, "", "", FALSE, NoAnnotation, NoWeight),
     Doc(TRUE, "v9", "Service", FALSE, NoAnnotation, NoWeight),
     Doc(TRUE, "v1", "Job", FALSE,
         HookAnno(<<Piece("pre-install", FALSE, FALSE)>>), WeightInt(0, 5)),
     Doc(TRUE, "v1", "Service", FALSE, NoAnnotation, NoWeight)}

\* the file sets renderer.Render can return in the render model
RenderedSets ==
    UNION {[P -> SeqsUpTo(RenderDocs, MaxNotes)] : P \in SUBSET RenderPaths}

NoOut == [hooks |-> <<>>, blob |-> <<>>, notes |-> <<>>, err |-> "nil"]

\* every order in which a range can visit the keys S of a map
KeyOrders(S) ==
    {o \in [1..Cardinality(S) -> S] : \A i, j \in DOMAIN o : i # j => o[i] # o[j]}

InitRender ==
    /\ rendered \in RenderedSets
    /\ notes = <<>>
    /\ rrPc = "call"
    /\ rrOut = NoOut

\* renderResources has taken the notes out of a file set without notes files
\* and is about to call sortManifests
SortingRender ==
    /\ rendered = <<>>
    /\ notes = <<>>
    /\ rrPc = "sort"
    /\ rrOut = NoOut

IdleRender ==
    /\ rendered = <<>>
    /\ notes = <<>>
    /\ rrPc = "idle"
    /\ rrOut = NoOut

\* lines 273-286: the chart asks for another Tiller, or the engine fails
renderResources_early ==
    /\ rrPc = "call"
    /\ \E e \in {"Chart incompatible with Tiller", "render error"} :
          rrOut' = [hooks |-> <<>>, blob |-> <<>>, notes |-> <<>>, err |-> e]
    /\ rrPc' = "ret"
    /\ UNCHANGED <<rendered, notes>>
    /\ UNCHANGED sortVars
    /\ UNCHANGED notRender

\* lines 283-310: files is what the engine rendered; the loop takes the notes
\* of the parent chart and deletes every file whose path ends in NOTES.txt;
\* then sortManifests is called with what is left
renderResources_notes ==
    /\ rrPc = "call"
    /\ LET parent == {k \in DOMAIN rendered : HasNotesSuffix(k) /\ IsParentNotes(k)}
       IN  notes' = IF parent = {} THEN <<>>
                    ELSE rendered[CHOOSE k \in parent : TRUE]
    /\ files' = [k \in {q \in DOMAIN rendered : ~HasNotesSuffix(q)} |-> rendered[k]]
    /\ rrPc' = "sort"
    /\ smPc' = "range"
    /\ todo' = DOMAIN files'
    /\ result' = EmptyResult
    /\ UNCHANGED <<rendered, rrOut>>
    /\ UNCHANGED <<smErr, smOut, apis, intSize>>
    /\ UNCHANGED notRender

\* lines 310-336: sortManifests has returned; on an error the files go into
\* the blob in the order a range over the map visits them, otherwise the
\* sorted manifests do
renderResources_return ==
    /\ rrPc = "sort"
    /\ smPc = "ret"
    /\ IF smErr # "nil"
       THEN \E o \in KeyOrders({k \in DOMAIN files : files[k] # <<>>}) :
               rrOut' = [hooks |-> <<>>,
                         blob |-> [i \in DOMAIN o |-> [name |-> o[i], content |-> files[o[i]]]],
                         notes |-> <<>>,
                         err |-> smErr]
       ELSE rrOut' = [hooks |-> smOut.hooks,
                      blob |-> [i \in DOMAIN smOut.generic |->
                                  [name |-> smOut.generic[i].name,
                                   content |-> <<smOut.generic[i].content>>]],
                      notes |-> notes,
                      err |-> "nil"]
    /\ rrPc' = "ret"
    /\ UNCHANGED <<rendered, notes>>
    /\ UNCHANGED sortVars
    /\ UNCHANGED notRender

renderResources ==
    \/ renderResources_early
    \/ renderResources_notes
    \/ renderResources_return

(***************************************************************************)
(*             CAPABILITY RESOLVER: capabilities, GetVersionSet            *)
(*                                                                         *)
(* The discovery client answers ServerVersion with a version or an error   *)
(* and ServerGroups with an error, a nil group list or a list of groups;   *)
(* a group is the sequence of the group/version strings of its versions.   *)
(***************************************************************************)
MaxGroups == 2
MaxVersions == 2

GroupVersionNames == {"v1", "apps/v1"}

APIGroups == SeqsUpTo(GroupVersionNames, MaxVersions)

NilGroupList == [isNil |-> TRUE, Groups |-> <<>>]

\* what ServerGroups can answer
GroupLists ==
    {NilGroupList} \cup {[isNil |-> FALSE, Groups |-> g] : g \in SeqsUpTo(APIGroups, MaxGroups)}

\* chartutil.DefaultVersionSet
DefaultVersionSet == {"v1"}

RECURSIVE ExtractGroupVersions(_)
\* metav1.ExtractGroupVersions: the group/version strings of every group
ExtractGroupVersions(groups) ==
    IF groups = <<>> THEN <<>>
    ELSE Head(groups) \o ExtractGroupVersions(Tail(groups))

\* chartutil.NewVersionSet(versions...)
NewVersionSet(versions) == Range(versions)

GetVersionSet(client) ==
    IF client.groupsErr THEN [vs |-> DefaultVersionSet, err |-> "groups error"]
    ELSE IF client.groups.isNil THEN [vs |-> DefaultVersionSet, err |-> "nil"]
    ELSE [vs |-> NewVersionSet(ExtractGroupVersions(client.groups.Groups)), err |-> "nil"]

NoCapabilities == [isNil |-> TRUE, APIVersions |-> {}, err |-> "nil"]

InitCaps ==
    /\ disc \in [svErr : BOOLEAN, groupsErr : BOOLEAN, groups : GroupLists]
    /\ disc.groupsErr => disc.groups = NilGroupList
    /\ capPc = "call"
    /\ capOut = NoCapabilities

IdleCaps ==
    /\ disc = [svErr |-> FALSE, groupsErr |-> FALSE, groups |-> NilGroupList]
    /\ capPc = "idle"
    /\ capOut = NoCapabilities

\* sv, err := disc.ServerVersion(); if err != nil { return nil, err }
capabilities_serverVersion ==
    /\ capPc = "call"
    /\ IF disc.svErr
       THEN /\ capOut' = [isNil |-> TRUE, APIVersions |-> {}, err |-> "server version error"]
            /\ capPc' = "ret"
       ELSE /\ capPc' = "groups"
            /\ UNCHANGED capOut
    /\ UNCHANGED disc
    /\ UNCHANGED notCaps

\* vs, err := GetVersionSet(disc) and the return of the snapshot
capabilities_versionSet ==
    /\ capPc = "groups"
    /\ LET r == GetVersionSet(disc)
       IN  IF r.err # "nil"
           THEN capOut' = [isNil |-> TRUE, APIVersions |-> {},
                           err |-> "Could not get apiVersions from Kubernetes"]
           ELSE capOut' = [isNil |-> FALSE, APIVersions |-> r.vs, err |-> "nil"]
    /\ capPc' = "ret"
    /\ UNCHANGED disc
    /\ UNCHANGED notCaps

capabilities ==
    \/ capabilities_serverVersion
    \/ capabilities_versionSet

(***************************************************************************)
(*          TWO INSTALLS OF ONE NAME: uniqName, then recordRelease         *)
(*                                                                         *)
(* Two install operations run on the same explicit name.  Each calls       *)
(* uniqName, which reads the history of the name from the store, and, when *)
(* it was given the name, later calls recordRelease, which writes to the   *)
(* store.  The two calls of an operation are separate steps; the steps of  *)
(* the two operations interleave freely.                                   *)
(***************************************************************************)
Ops == {1, 2}

InstallName == <<"a">>

\* what the store can hold for the name when the operations begin
InstallStores ==
    {<<>>,
     <<[Version |-> 1, Status |-> "DEPLOYED"]>>,
     <<[Version |-> 1, Status |-> "DELETED"]>>,
     <<[Version |-> 1, Status |-> "SUPERSEDED"], [Version |-> 2, Status |-> "FAILED"]>>}

NoGrant(r) == [reuse |-> r, seen |-> <<>>, herr |-> "nil", name |-> <<>>, err |-> "nil"]

NoRecord == [storeErr |-> "nil", returned |-> "nil"]

\* the release an install hands to recordRelease: the first revision of the
\* name, or the one after the latest it saw when it re-uses the name
InstallRecord(p) ==
    [Version |-> IF igrant[p].seen = <<>> THEN 1
                 ELSE ReverseSortByRevision(igrant[p].seen)[1].Version + 1,
     Status |-> "UNKNOWN"]

\* s.env.Releases.Create(r): one more revision under the name
Create(r) == Append(store, r)

\* s.env.Releases.Update(r): the revision replaces the stored one of its number
Update(r) == SelectSeq(store, LAMBDA x : x.Version # r.Version) \o <<r>>

InitInstall ==
    /\ store \in InstallStores
    /\ ipc = [p \in Ops |-> "call"]
    /\ \E f \in [Ops -> BOOLEAN] : igrant = [p \in Ops |-> NoGrant(f[p])]
    /\ irec = [p \in Ops |-> NoRecord]

IdleInstall ==
    /\ store = <<>>
    /\ ipc = [p \in Ops |-> "idle"]
    /\ igrant = [p \in Ops |-> NoGrant(FALSE)]
    /\ irec = [p \in Ops |-> NoRecord]

\* a uniqName that refuses a name another operation holds and has not recorded yet
install_uniqName_reserving ==
    /\ \E p \in Ops :
          /\ ipc[p] = "call"
          /\ \E e \in (IF store = <<>> THEN {"nil", "not found", "store failure"}
                       ELSE {"nil", "store failure"}) :
                LET h == IF e = "nil" THEN store ELSE <<>>
                    r == IF \E q \in Ops \ {p} : ipc[q] = "ret" /\ igrant[q].err = "nil"
                         THEN [name |-> <<>>, err |-> "already exists"]
                         ELSE ExplicitName(InstallName, igrant[p].reuse, h, e)
                IN  igrant' = [igrant EXCEPT ![p] = [reuse |-> @.reuse, seen |-> store,
                                                     herr |-> e, name |-> r.name,
                                                     err |-> r.err]]
          /\ ipc' = [ipc EXCEPT ![p] = "ret"]
    /\ UNCHANGED <<store, irec>>
    /\ UNCHANGED notInstall

\* an operation calls uniqName(name, reuse): lines 163-190
install_uniqName ==
    /\ \E p \in Ops :
          /\ ipc[p] = "call"
          /\ \E e \in (IF store = <<>> THEN {"nil", "not found", "store failure"}
                       ELSE {"nil", "store failure"}) :
                LET h == IF e = "nil" THEN store ELSE <<>>
                    r == ExplicitName(InstallName, igrant[p].reuse, h, e)
                IN  igrant' = [igrant EXCEPT ![p] = [reuse |-> @.reuse, seen |-> store,
                                                     herr |-> e, name |-> r.name,
                                                     err |-> r.err]]
          /\ ipc' = [ipc EXCEPT ![p] = "ret"]
    /\ UNCHANGED <<store, irec>>
    /\ UNCHANGED notInstall

\* an operation that was given the name calls recordRelease(r, reuse): the
\* store call succeeds or fails; a failure is logged and nothing is returned
install_recordRelease ==
    /\ \E p \in Ops :
          /\ ipc[p] = "ret"
          /\ igrant[p].err = "nil"
          /\ \E fails \in BOOLEAN :
                IF igrant[p].reuse
                THEN /\ store' = IF fails THEN store ELSE Update(InstallRecord(p))
                     /\ irec' = [irec EXCEPT ![p] =
                                   [storeErr |-> IF fails THEN "update failed" ELSE "nil",
                                    returned |-> "nil"]]
                ELSE /\ store' = IF fails THEN store ELSE Create(InstallRecord(p))
                     /\ irec' = [irec EXCEPT ![p] =
                                   [storeErr |-> IF fails THEN "create failed" ELSE "nil",
                                    returned |-> "nil"]]
          /\ ipc' = [ipc EXCEPT ![p] = "recorded"]
    /\ UNCHANGED igrant
    /\ UNCHANGED notInstall

install ==
    \/ install_uniqName
    \/ install_recordRelease

(***************************************************************************)
(*                 A SECOND CLASSIFICATION OF THE SAME FILES               *)
(***************************************************************************)
NoFirst == [done |-> FALSE, out |-> EmptyResult, err |-> "nil"]

IdleRerun == first = NoFirst

\* sortManifests, called on its own, has returned and is called once more with
\* the same files and the same API set; what the first call returned is kept
sortManifests_again ==
    /\ smPc = "ret"
    /\ rrPc = "idle"
    /\ ~first.done
    /\ first' = [done |-> TRUE, out |-> smOut, err |-> smErr]
    /\ smPc' = "range"
    /\ todo' = DOMAIN files
    /\ result' = EmptyResult
    /\ smErr' = "nil"
    /\ smOut' = EmptyResult
    /\ UNCHANGED <<files, apis, intSize>>
    /\ UNCHANGED notRerun

(***************************************************************************)
(*                  CHART REPOSITORY: NewChartRepository                   *)
(*                                                                         *)
(* The entry's URL is text url.Parse rejects, or text it accepts, with the *)
(* scheme it finds.  getters maps each scheme a provider is registered for *)
(* to what the provider's constructor does with the entry: it returns a    *)
(* client, or it fails and returns an error and no client.                 *)
(***************************************************************************)
Schemes == {"http", "https", "ftp"}

RepoURLs ==
    {[parses |-> FALSE, scheme |-> ""]}
        \cup {[parses |-> TRUE, scheme |-> sc] : sc \in Schemes \cup {""}}

Providers == UNION {[P -> {"ok", "fails"}] : P \in SUBSET Schemes}

NoRepository == [isNil |-> TRUE, Client |-> "nil", err |-> "nil"]

InitRepo ==
    /\ cfg \in [URL : RepoURLs, Name : {"stable", "local"}]
    /\ getters \in Providers
    /\ ncPc = "call"
    /\ ncOut = NoRepository

IdleRepo ==
    /\ cfg = [URL |-> [parses |-> FALSE, scheme |-> ""], Name |-> "stable"]
    /\ getters = <<>>
    /\ ncPc = "idle"
    /\ ncOut = NoRepository

\* u, err := url.Parse(cfg.URL)
NewChartRepository_parse ==
    /\ ncPc = "call"
    /\ IF ~cfg.URL.parses
       THEN /\ ncOut' = [isNil |-> TRUE, Client |-> "nil", err |-> "invalid chart URL format"]
            /\ ncPc' = "ret"
       ELSE /\ ncPc' = "scheme"
            /\ UNCHANGED ncOut
    /\ UNCHANGED <<cfg, getters>>
    /\ UNCHANGED notRepo

\* getterConstructor, err := getters.ByScheme(u.Scheme)
NewChartRepository_byScheme ==
    /\ ncPc = "scheme"
    /\ IF cfg.URL.scheme \notin DOMAIN getters
       THEN /\ ncOut' = [isNil |-> TRUE, Client |-> "nil",
                         err |-> "Could not find protocol handler"]
            /\ ncPc' = "ret"
       ELSE /\ ncPc' = "construct"
            /\ UNCHANGED ncOut
    /\ UNCHANGED <<cfg, getters>>
    /\ UNCHANGED notRepo

\* client, _ := getterConstructor(...): the constructor's error is dropped and
\* the test that follows reads err, which ByScheme left nil
NewChartRepository_construct ==
    /\ ncPc = "construct"
    /\ LET client == IF getters[cfg.URL.scheme] = "ok" THEN "client" ELSE "nil"
           err == "nil"
       IN  IF err # "nil"
           THEN ncOut' = [isNil |-> TRUE, Client |-> "nil",
                          err |-> "Could not construct protocol handler"]
           ELSE ncOut' = [isNil |-> FALSE, Client |-> client, err |-> "nil"]
    /\ ncPc' = "ret"
    /\ UNCHANGED <<cfg, getters>>
    /\ UNCHANGED notRepo

NewChartRepository ==
    \/ NewChartRepository_parse
    \/ NewChartRepository_byScheme
    \/ NewChartRepository_construct

(***************************************************************************)
(*                            SPECIFICATIONS                               *)
(***************************************************************************)
\* every component but the named ones is idle
InitSpecValues ==
    /\ InitValues /\ IdleName /\ IdleHook /\ IdleSort /\ IdleRender
    /\ IdleRerun /\ IdleCaps /\ IdleInstall /\ IdleRepo
NextValues == reuseValues
SpecValues == InitSpecValues /\ [][NextValues]_vars

InitSpecName ==
    /\ IdleValues /\ InitName /\ IdleHook /\ IdleSort /\ IdleRender
    /\ IdleRerun /\ IdleCaps /\ IdleInstall /\ IdleRepo
NextName == uniqName
SpecName == InitSpecName /\ [][NextName]_vars

InitSpecHook ==
    /\ IdleValues /\ IdleName /\ InitHook /\ IdleSort /\ IdleRender
    /\ IdleRerun /\ IdleCaps /\ IdleInstall /\ IdleRepo
NextHook == execHook
SpecHook == InitSpecHook /\ [][NextHook]_vars

InitSpecSort ==
    /\ IdleValues /\ IdleName /\ IdleHook /\ InitSort /\ SortingRender
    /\ IdleRerun /\ IdleCaps /\ IdleInstall /\ IdleRepo
NextSort == Render \/ sortManifests \/ renderResources_return
SpecSort == InitSpecSort /\ [][NextSort]_vars

InitSpecEntry ==
    /\ IdleValues /\ IdleName /\ IdleHook /\ InitEntry /\ IdleRender
    /\ IdleRerun /\ IdleCaps /\ IdleInstall /\ IdleRepo
NextEntry == sortManifests_file \/ sortManifests_return
SpecEntry == InitSpecEntry /\ [][NextEntry]_vars

InitSpecRender ==
    /\ IdleValues /\ IdleName /\ IdleHook /\ IdleSort /\ InitRender
    /\ IdleRerun /\ IdleCaps /\ IdleInstall /\ IdleRepo
NextRender ==
    \/ renderResources
    \/ sortManifests_skip
    \/ sortManifests_file
    \/ sortManifests_return
SpecRender == InitSpecRender /\ [][NextRender]_vars

InitSpecTwice ==
    /\ IdleValues /\ IdleName /\ IdleHook /\ InitSort /\ IdleRender
    /\ IdleRerun /\ IdleCaps /\ IdleInstall /\ IdleRepo
NextTwice == Render \/ sortManifests \/ sortManifests_again
SpecTwice == InitSpecTwice /\ [][NextTwice]_vars

InitSpecCaps ==
    /\ IdleValues /\ IdleName /\ IdleHook /\ IdleSort /\ IdleRender
    /\ IdleRerun /\ InitCaps /\ IdleInstall /\ IdleRepo
NextCaps == capabilities
SpecCaps == InitSpecCaps /\ [][NextCaps]_vars

InitSpecInstall ==
    /\ IdleValues /\ IdleName /\ IdleHook /\ IdleSort /\ IdleRender
    /\ IdleRerun /\ IdleCaps /\ InitInstall /\ IdleRepo
NextInstall == install
SpecInstall == InitSpecInstall /\ [][NextInstall]_vars

InitSpecRepo ==
    /\ IdleValues /\ IdleName /\ IdleHook /\ IdleSort /\ IdleRender
    /\ IdleRerun /\ IdleCaps /\ IdleInstall /\ InitRepo
NextRepo == NewChartRepository
SpecRepo == InitSpecRepo /\ [][NextRepo]_vars

\* one call of any one stage
Init ==
    \/ InitSpecValues
    \/ InitSpecName
    \/ InitSpecHook
    \/ InitSpecSort
    \/ InitSpecRender
    \/ InitSpecTwice
    \/ InitSpecCaps
    \/ InitSpecInstall
    \/ InitSpecRepo

Next ==
    \/ NextValues
    \/ NextName
    \/ NextHook
    \/ NextSort
    \/ NextRender
    \/ NextTwice
    \/ NextCaps
    \/ NextInstall
    \/ NextRepo

Spec == Init /\ [][Next]_vars

(***************************************************************************)
(*                     PROPERTIES OF THE VALUES POLICY                     *)
(***************************************************************************)
\* "blank" as the specification words it: unset, zero-length, or exactly the
\* canonical serialisation of the empty object
Blank(c) ==
    \/ c.isNil
    \/ ~c.isNil /\ c.form = "empty"
    \/ ~c.isNil /\ c.form = "yaml" /\ c.tree = EmptyTree /\ c.canon

\* the prior release's coalesced configuration: chart defaults under its stored configuration
PriorCoalesced ==
    [k \in Keys |->
        IF current.Config.tree[k] # 0 THEN current.Config.tree[k]
        ELSE current.ChartValues.tree[k]]

\* C1: with the reuse flag set and the reset flag not set, once reuseValues has
\* returned without error the configuration the request carries is the prior
\* release's coalesced configuration, whatever configuration the request
\* supplied: either the request's configuration is that tree, or at least the
\* values the release is rendered with (the request's chart values under the
\* request's configuration) are that tree.
C1_ReuseCarriesPriorCoalesced ==
    (rvPc = "done" /\ reqIn.ReuseValues /\ ~reqIn.ResetValues /\ rvErr = "nil")
        => /\ req.Values.form # "bad"
           /\ \/ req.Values.tree = PriorCoalesced
              \/ [k \in Keys |->
                     IF req.Values.tree[k] # 0 THEN req.Values.tree[k]
                     ELSE req.ChartValues.tree[k]] = PriorCoalesced

\* C2: with the reset flag set, reuseValues returns no error and leaves the
\* request's configuration and the request's chart values as supplied, for
\* every prior configuration, also when the reuse flag is set too.
C2_ResetLeavesRequest ==
    (rvPc = "done" /\ reqIn.ResetValues)
        => /\ rvErr = "nil"
           /\ req.Values = reqIn.Values
           /\ req.ChartValues = reqIn.ChartValues

\* C2 happens: both flags set, a prior configuration that differs from the
\* request's and that could not have been coalesced
C2_Witness ==
    /\ rvPc = "done"
    /\ reqIn.ResetValues
    /\ reqIn.ReuseValues
    /\ current.Config = RawBad
    /\ reqIn.Values = Yaml(OneTree, TRUE)

\* C3: with neither flag set, the request's configuration becomes the prior
\* stored configuration exactly when the request's is blank and the prior one
\* is not; otherwise it stays as supplied.
C3_CarryForwardIffBlank ==
    (rvPc = "done" /\ ~reqIn.ResetValues /\ ~reqIn.ReuseValues)
        => IF Blank(reqIn.Values) /\ ~Blank(current.Config)
           THEN req.Values = current.Config
           ELSE req.Values = reqIn.Values

\* C3 happens: the request carries "{}\n", the prior release a non-canonical
\* text of a non-empty tree, which is copied as it is
C3_Witness ==
    /\ rvPc = "done"
    /\ ~reqIn.ResetValues
    /\ ~reqIn.ReuseValues
    /\ reqIn.Values = EmptyObject
    /\ current.Config = Yaml(OneTree, FALSE)
    /\ req.Values = current.Config

(***************************************************************************)
(*                     PROPERTIES OF THE NAME ALLOCATOR                    *)
(***************************************************************************)
Granted == unPc = "ret" /\ unErr = "nil"

\* the status of the revision with the greatest revision number
LatestStatus ==
    (CHOOSE r \in Range(history) : \A q \in Range(history) : q.Version <= r.Version).Status

\* C4: an explicit name of length <= 53 is granted iff no history exists for it
\* or the reuse flag is set and the latest revision is DELETED or FAILED,
\* whatever the order of the history; with reuse and another latest status the
\* error is "name in use"; without reuse and with any history it is the
\* conflict error; a longer name is rejected.
C4_ExplicitNameGrantedIff ==
    (unPc = "ret" /\ start # <<>>)
        => IF Len(start) > releaseNameMaxLen THEN unErr # "nil"
           ELSE /\ (unErr = "nil" /\ unName = start)
                     <=> \/ history = <<>>
                         \/ reuse /\ LatestStatus \in {"DELETED", "FAILED"}
                /\ (history # <<>> /\ reuse /\ LatestStatus \notin {"DELETED", "FAILED"})
                     => unErr = "cannot re-use a name that is still in use"
                /\ (history # <<>> /\ ~reuse) => unErr = "already exists"

\* C5: without an explicit name every call ends either by returning the first
\* generated name whose lookup reported "not found", after at most 5 attempts,
\* every earlier attempt having found the name taken or failed, or, after 5
\* attempts without a free name, by returning an error.
C5_GenerationEndsGrantedOrError ==
    (start = <<>> /\ unPc \notin {"call", "gen"})
        => /\ unPc = "ret"
           /\ Len(looked) <= maxTries
           /\ \/ /\ unErr = "nil"
                 /\ looked # <<>>
                 /\ looked[Len(looked)] = "not found"
                 /\ \A i \in 1..(Len(looked) - 1) : looked[i] # "not found"
              \/ /\ unErr # "nil"
                 /\ Len(looked) = maxTries
                 /\ \A i \in DOMAIN looked : looked[i] # "not found"

\* C6: every name the allocator grants is not empty, matches the name pattern
\* and is at most 53 long.
C6_GrantedNameIsValid ==
    Granted => /\ unName # <<>>
               /\ Len(unName) <= releaseNameMaxLen
               /\ Len(unName) >= 1
               /\ \A i \in DOMAIN unName : unName[i] \in {"a", "-"}
               /\ unName[1] = "a"
               /\ unName[Len(unName)] = "a"

(***************************************************************************)
(*                     PROPERTIES OF THE HOOK EXECUTOR                     *)
(***************************************************************************)
\* the hooks submitted for creation, in the order of submission
Submitted ==
    LET creates == SelectSeq(kubeCalls, LAMBDA c : c.op = "Create")
    IN  [i \in DOMAIN creates |-> creates[i].h]

\* the hooks whose readiness wait succeeded
Ready == {c.h : c \in {d \in Range(kubeCalls) : d.op = "WatchUntilReady" /\ d.ok}}

Failed == ehPc = "ret" /\ ehErr \in {"create failed", "watch failed"}

\* C7: when the creation or the readiness wait of a hook fails, execHook
\* returns at once: the failed call is the last one, no later hook is
\* submitted or waited on, nothing is deleted, and the last-run timestamp is
\* set on exactly the hooks whose wait succeeded; the failing hook and the
\* hooks after it keep their previous timestamp.
C7_FailureStopsBatch ==
    Failed
        => /\ ~kubeCalls[Len(kubeCalls)].ok
           /\ \A i \in 1..(Len(kubeCalls) - 1) : kubeCalls[i].ok
           /\ Submitted = SubSeq(executingHooks, 1, ehI)
           /\ \A c \in Range(kubeCalls) : c.op \in {"Create", "WatchUntilReady"}
           /\ \A k \in DOMAIN hs : (hs[k].LastRun # 0) <=> (k \in Ready)
           /\ \A i \in ehI..Len(executingHooks) : hs[executingHooks[i]].LastRun = 0

\* C8: the hooks are submitted in ascending order of weight, as signed
\* numbers, and of name among equal weights, whatever the order of the hook
\* list; and a hook is submitted only after the one before it was reported ready.
C8_SubmittedInWeightNameOrder ==
    /\ \A i \in 1..(Len(Submitted) - 1) :
          LET x == hs[Submitted[i]]
              y == hs[Submitted[i + 1]]
          IN  \/ x.Weight < y.Weight
              \/ x.Weight = y.Weight /\ (x.Name = y.Name \/ StringLess(x.Name, y.Name))
    /\ \A j \in 2..Len(kubeCalls) :
          kubeCalls[j].op = "Create"
              => /\ kubeCalls[j - 1].op = "WatchUntilReady"
                 /\ kubeCalls[j - 1].ok
                 /\ \E i \in 2..Len(Submitted) :
                       /\ Submitted[i] = kubeCalls[j].h
                       /\ Submitted[i - 1] = kubeCalls[j - 1].h

\* C8 happens: two hooks were submitted in the reverse of their list order,
\* the second after the first was ready
C8_Witness ==
    /\ ehPc = "ret"
    /\ ehErr = "nil"
    /\ Len(hs) = 2
    /\ Submitted = <<2, 1>>
    /\ hs[2].Weight = hs[1].Weight
    /\ hs[2].Name = <<1, 1>>
    /\ hs[1].Name = <<2>>

(***************************************************************************)
(*                      PROPERTIES OF THE CLASSIFIER                       *)
(***************************************************************************)
\* a piece names a recognised event: its word, whatever its case and the
\* blanks around it, is one of the event names
Recognised(t) == t.base \in DOMAIN events

RECURSIVE NamedEvents(_)
\* the events of the recognised pieces of an annotation, in its order
NamedEvents(pieces) ==
    IF pieces = <<>> THEN <<>>
    ELSE (IF Recognised(Head(pieces)) THEN <<events[Head(pieces).base]>> ELSE <<>>)
            \o NamedEvents(Tail(pieces))

HasHookKey(d) == d.hook.present

\* the document of the single-document model
TheEntry == files[EntryPath][1]

\* C9: a document whose hook annotation names at least one recognised event
\* yields, without error, one Hook whose events are the recognised names in
\* the annotation's order and whose weight is the integer the hook-weight
\* annotation holds, or 0 when it is missing or is not an integer.
C9_HookEventsAndWeight ==
    (smPc = "ret" /\ DOMAIN files = {EntryPath} /\ NamedEvents(TheEntry.hook.pieces) # <<>>)
        => /\ smErr = "nil"
           /\ Len(smOut.hooks) = 1
           /\ smOut.generic = <<>>
           /\ smOut.hooks[1].Events = NamedEvents(TheEntry.hook.pieces)
           /\ IF TheEntry.weight.present /\ TheEntry.weight.int
              THEN /\ smOut.hooks[1].Weight \div TwoTo16 = TheEntry.weight.hi
                   /\ smOut.hooks[1].Weight % TwoTo16 = TheEntry.weight.lo
              ELSE smOut.hooks[1].Weight = 0

\* how often x occurs in the sequence l
Occurrences(l, x) == Len(SelectSeq(l, LAMBDA y : y = x))

Skipped(p) == p.base[1] = "_" \/ files[p] = <<>>

Refused(d) == ~d.parse \/ (d.Version # "" /\ d.Version \notin apis)

Available(v) == v = "" \/ v \in apis

Precedence(kind) ==
    Cardinality({i \in DOMAIN InstallOrder :
                    \A j \in DOMAIN InstallOrder : j <= i => InstallOrder[j] # kind}) + 1

OfKind(l, kind) == SelectSeq(l, LAMBDA m : m.head.Kind = kind)

\* C12: in the generic list of a successful classification, and in the blob
\* built from it, no manifest comes before one whose kind has an earlier place
\* in the kind-precedence table, kinds outside the table coming last
\* (Namespace, then Service, then unknown kinds); sorting the list again
\* leaves it unchanged; manifests of one kind are in the order in which the
\* classifier met them.
C12_GenericInKindOrder ==
    (rrPc = "ret" /\ smPc = "ret" /\ rrOut.err = "nil")
        => /\ \A i, j \in DOMAIN smOut.generic :
                 i < j => Precedence(smOut.generic[i].head.Kind)
                            <= Precedence(smOut.generic[j].head.Kind)
           /\ \A i, j \in DOMAIN smOut.generic :
                 i < j => /\ ~(smOut.generic[i].head.Kind = "Service"
                                 /\ smOut.generic[j].head.Kind = "Namespace")
                          /\ ~(smOut.generic[i].head.Kind = "Foo"
                                 /\ smOut.generic[j].head.Kind \in {"Namespace", "Service"})
           /\ Len(rrOut.blob) = Len(smOut.generic)
           /\ \A i \in DOMAIN smOut.generic :
                 /\ rrOut.blob[i].name = smOut.generic[i].name
                 /\ rrOut.blob[i].content = <<smOut.generic[i].content>>
           /\ sortByKind(smOut.generic, InstallOrder) = smOut.generic
           /\ \A k \in {m.head.Kind : m \in Range(result.generic)} :
                 OfKind(smOut.generic, k) = OfKind(result.generic, k)
           /\ Len(smOut.generic) = Len(result.generic)

\* C12 happens: the classifier met an unknown kind, then a Service, then a
\* Namespace, or two Services of different files around another kind, and the
\* returned list is in another order than the one they were met in
C12_Witness ==
    /\ rrPc = "ret"
    /\ rrOut.err = "nil"
    /\ Len(result.generic) = 3
    /\ result.generic[1].head.Kind = "Service"
    /\ result.generic[2].head.Kind = "Foo"
    /\ result.generic[3].head.Kind = "Service"
    /\ result.generic[1].name # result.generic[3].name
    /\ result.generic[1].content # result.generic[3].content
    /\ smOut.generic # result.generic
    /\ rrOut.blob[1].name = result.generic[1].name
    /\ rrOut.blob[2].name = result.generic[3].name

(***************************************************************************)
(*                  PROPERTIES OF THE CAPABILITY RESOLVER                  *)
(***************************************************************************)
\* the server answered the groups query with no group: no list, or an empty one
ZeroGroups == disc.groups.isNil \/ disc.groups.Groups = <<>>

\* C13: when the server version is obtained and the groups query answers
\* without error and with zero groups (no group list at all, or a list
\* without entries), capabilities returns, without error, a snapshot whose
\* API version set is the default version set; when the server version cannot
\* be obtained it returns an error and no snapshot.
C13_ZeroGroupsFallBackToDefault ==
    (capPc = "ret")
        => /\ (~disc.svErr /\ ~disc.groupsErr /\ ZeroGroups)
                 => /\ capOut.err = "nil"
                    /\ ~capOut.isNil
                    /\ capOut.APIVersions = DefaultVersionSet
           /\ disc.svErr => (capOut.err # "nil" /\ capOut.isNil)

(***************************************************************************)
(*                     PROPERTIES OF ERROR PROPAGATION                     *)
(***************************************************************************)
\* a stage's failures that reached its caller
RecordingPropagates ==
    \A p \in Ops :
        (ipc[p] = "recorded" /\ irec[p].storeErr # "nil") => irec[p].returned # "nil"

HooksPropagate ==
    (ehPc = "ret" /\ \E c \in Range(kubeCalls) : ~c.ok) => ehErr # "nil"

ValuesPropagate ==
    (rvPc = "done" /\ reqIn.ReuseValues /\ ~reqIn.ResetValues
        /\ current.Config.form = "bad")
        => rvErr # "nil"

ClassifierPropagates ==
    (rrPc = "ret" /\ smPc = "ret" /\ smErr # "nil") => rrOut.err = smErr

\* C14: no stage swallows an error: a failed create or update of the release
\* record in the recording step, a failed create or readiness call in the hook
\* executor, a failed recomputation of the prior values in the values policy
\* and a failed classification in the render step each reach the stage's
\* caller as an error result.
C14_NoStageSwallowsError ==
    /\ RecordingPropagates
    /\ HooksPropagate
    /\ ValuesPropagate
    /\ ClassifierPropagates

(***************************************************************************)
(*                   PROPERTIES OF CONCURRENT INSTALLS                     *)
(***************************************************************************)
\* the operation asked for the name and was given it
Holds(p) == ipc[p] \in {"ret", "recorded"} /\ igrant[p].err = "nil" /\ igrant[p].name = InstallName

\* C16: an install whose existence check ran while the store held nothing for
\* the name is given the name, whatever the other install has done by then,
\* also when the other already holds the name and has not recorded its
\* release yet; and the recording step of an install that holds the name
\* never reports a conflict with the other.  So both installs are given the
\* name whenever both checks run before either records.
C16_BothChecksBeforeRecordGrantBoth ==
    /\ \A p \in Ops :
          (ipc[p] \in {"ret", "recorded"} /\ igrant[p].seen = <<>>) => Holds(p)
    /\ \A p \in Ops : ipc[p] = "recorded" => (Holds(p) /\ irec[p].returned = "nil")

\* C16 happens: the name was unused, both installs (neither re-using) checked
\* before either recorded, both were given the name and both recorded a release
C16_Witness ==
    /\ \A p \in Ops :
          /\ ipc[p] = "recorded"
          /\ ~igrant[p].reuse
          /\ igrant[p].seen = <<>>
          /\ igrant[p].herr \in {"nil", "not found"}
          /\ Holds(p)
          /\ irec[p].storeErr = "nil"
    /\ Len(store) = 2

(***************************************************************************)
(*                        PROPERTIES OF THE NOTES                          *)
(***************************************************************************)
EndsInNotes(k) == k.base[Len(k.base)] = "NOTES.txt"

\* <chart-name>/templates/NOTES.txt
TopNotes == [dir |-> "chart/templates", base |-> <<"NOTES.txt">>]

\* C15: whatever the engine rendered, no file whose path ends in NOTES.txt is
\* classified: none is in the file set sortManifests works on, none is the
\* source of a hook, of a generic manifest or of an entry of the blob, and an
\* error is returned only over a document of another file; a successful
\* render returns as notes the content of <chart-name>/templates/NOTES.txt
\* when the engine rendered that file, and the empty string otherwise.
C15_NotesExtractedBeforeClassification ==
    (rrPc = "ret" /\ smPc = "ret")
        => /\ \A k \in DOMAIN files : ~EndsInNotes(k)
           /\ \A h \in Range(rrOut.hooks) \cup Range(result.hooks) : ~EndsInNotes(h.Path)
           /\ \A m \in Range(smOut.generic) \cup Range(result.generic) : ~EndsInNotes(m.name)
           /\ \A b \in Range(rrOut.blob) : ~EndsInNotes(b.name)
           /\ rrOut.err # "nil"
                => \E k \in DOMAIN rendered :
                      /\ ~EndsInNotes(k)
                      /\ \E d \in Range(rendered[k]) : Refused(d)
           /\ rrOut.err = "nil"
                => rrOut.notes = IF TopNotes \in DOMAIN rendered
                                 THEN rendered[TopNotes] ELSE <<>>

\* C15 happens: the engine rendered free text as the notes of the chart, the
\* notes of a subchart with a document of an unavailable apiVersion, and a
\* manifest; the render succeeds and returns the chart's notes
C15_Witness ==
    /\ rrPc = "ret"
    /\ smPc = "ret"
    /\ rrOut.err = "nil"
    /\ TopNotes \in DOMAIN rendered
    /\ rendered[TopNotes] # <<>>
    /\ ~rendered[TopNotes][1].parse
    /\ rrOut.notes = rendered[TopNotes]
    /\ \E k \in DOMAIN rendered :
          /\ k # TopNotes
          /\ EndsInNotes(k)
          /\ rendered[k] # <<>>
          /\ rendered[k][1].Version = "v9"
    /\ Len(rrOut.blob) = 1

(***************************************************************************)
(*                 PROPERTIES OF THE SELECTION OF HOOKS                    *)
(***************************************************************************)
\* how many calls of operation op were made for hook k
Calls(op, k) == Len(SelectSeq(kubeCalls, LAMBDA c : c.op = op /\ c.h = k))

\* hook k is bound to the event code
Bound(k, code) == \E j \in DOMAIN hs[k].Events : hs[k].Events[j] = code

\* C17: when execHook returns without error for a recognised event, every
\* hook bound to the event was submitted for creation exactly once and waited
\* on exactly once, and no other hook was submitted or waited on, also when a
\* hook's events name the event more than once; for an event name outside the
\* recognised set execHook returns an error without any cluster call.
C17_EachBoundHookRunsOnce ==
    /\ (ehPc = "ret" /\ ehErr = "nil" /\ hook \in DOMAIN events)
          => \A k \in DOMAIN hs :
                IF Bound(k, events[hook])
                THEN Calls("Create", k) = 1 /\ Calls("WatchUntilReady", k) = 1
                ELSE Calls("Create", k) = 0 /\ Calls("WatchUntilReady", k) = 0
    /\ (ehPc = "ret" /\ hook \notin DOMAIN events)
          => (ehErr # "nil" /\ kubeCalls = <<>>)

(***************************************************************************)
(*                PROPERTIES OF A SECOND CLASSIFICATION                    *)
(***************************************************************************)
\* C18: a second call of sortManifests on the same files and API set returns
\* what the first call returned: the same error, or the same hook list in the
\* same order and the same generic manifests in the same order.
C18_SecondRunReturnsTheSame ==
    (smPc = "ret" /\ first.done)
        => /\ smErr = first.err
           /\ smErr = "nil" => smOut = first.out

(***************************************************************************)
(*                 PROPERTIES OF NewChartRepository                        *)
(***************************************************************************)
\* the constructor of the handler registered for the URL's scheme failed
ConstructorFailed ==
    /\ cfg.URL.parses
    /\ cfg.URL.scheme \in DOMAIN getters
    /\ getters[cfg.URL.scheme] = "fails"

\* C19: NewChartRepository returns a repository only when the URL parses, a
\* handler is registered for its scheme and the handler's constructor
\* succeeded; when the constructor fails it returns the error "Could not
\* construct protocol handler" and no repository.
C19_ConstructorFailureIsReported ==
    (ncPc = "ret")
        => /\ ~ncOut.isNil
                => /\ cfg.URL.parses
                   /\ cfg.URL.scheme \in DOMAIN getters
                   /\ getters[cfg.URL.scheme] = "ok"
                   /\ ncOut.err = "nil"
           /\ ConstructorFailed
                => /\ ncOut.isNil
                   /\ ncOut.err = "Could not construct protocol handler"

====
